---- MODULE Spec2Model ----
(***************************************************************************)
(* Model of scripts/generate_tianhe_transport_geojson.py: the run of main  *)
(* (resolve, fetch, assemble, write, zip) and, step by step, the feature   *)
(* assembler assemble_features.                                            *)
(***************************************************************************)
EXTENDS Integers, Sequences, FiniteSets, TLC

VARIABLES
    pc,               \* position of the run: a stage of main or a loop of assemble_features
    error,            \* the exception that ended the run, or None
    results,          \* get_tianhe_relation_id: the candidates the geocoder answered
    rid,              \* main: the resolved relation id (0 before resolve)
    stdout,           \* main: the numbers of the progress lines printed so far
    osm,              \* main: the document fetch_overpass returned
    nodes,            \* assemble_features: id -> (lon, lat, tags)
    ways,             \* assemble_features: id -> its node ids and tags
    relations,        \* assemble_features: the relation elements
    ri,               \* assemble_features: index of rel in relations
    mi,               \* assemble_features: index of m in the second loop over the members
    seq,              \* assemble_features: the stop sequence counter
    features,         \* assemble_features: the LineString features
    stop_features,    \* assemble_features: the Point features
    seen_stop_nodes,  \* assemble_features: node id -> its properties (an index of stop_features)
    fc,               \* main: the feature collection assemble_features returned
    files             \* the file system: output name -> what was written

vars == <<pc, error, results, rid, stdout, osm, nodes, ways, relations, ri, mi, seq, features,
          stop_features, seen_stop_nodes, fc, files>>

-----------------------------------------------------------------------------
(* Bounds of the model *)

\* relations in a fetched document
MaxRels == 2
\* members of all the relations of a fetched document together
MaxMembers == 2
\* members of the documents the whole run (Spec) fetches
MaxFetchMembers == 1
\* candidates the geocoder returns
MaxCandidates == 2

-----------------------------------------------------------------------------
(* Python values *)

None == "None"
OUT_GEOJSON == "tianhe_transport.geojson"
OUT_ZIP == "tianhe_transport.zip"

\* an empty dict
EmptyDict == [k \in {} |-> None]

\* d.get(k) and d.get(k, default)
Get(d, k, default) == IF k \in DOMAIN d THEN d[k] ELSE default

\* a or b, for values that are strings or None
Or(a, b) == IF a # None /\ a # "" THEN a ELSE b

\* str(n) of an integer
str(n) == ToString(n)

\* s.lower(), on the strings the route tag takes in the model
lower(s) ==
    CASE s = "Subway" -> "subway"
      [] s = "BUS" -> "bus"
      [] OTHER -> s

\* the elements of s from index i on whose index is in keep, in order
RECURSIVE SelectIdx(_, _, _)
SelectIdx(s, i, keep) ==
    IF i > Len(s) THEN <<>>
    ELSE (IF i \in keep THEN <<s[i]>> ELSE <<>>) \o SelectIdx(s, i + 1, keep)

RECURSIVE Sum(_, _)
Sum(f, n) == IF n = 0 THEN 0 ELSE f[n] + Sum(f, n - 1)

-----------------------------------------------------------------------------
(* The fetched documents: the "elements" of an Overpass answer *)

\* The node elements: node 1 and node 2 lie at different places and node 1
\* carries a ref and a name; node 3 is referenced but was not fetched.
NodeElements ==
    << [type |-> "node", id |-> 1, lon |-> 0, lat |-> 0,
        tags |-> [ref |-> "S1", name |-> "A"]],
       [type |-> "node", id |-> 2, lon |-> 1, lat |-> 1, tags |-> EmptyDict] >>

\* The way elements: way 10 names node 1 twice and the missing node 3, way 12
\* names missing nodes only; way 13 is referenced but was not fetched.
WayElements ==
    << [type |-> "way", id |-> 10, nodes |-> <<1, 1, 3, 2>>, tags |-> EmptyDict],
       [type |-> "way", id |-> 12, nodes |-> <<3>>, tags |-> EmptyDict] >>

\* The members a relation is built from
MemberChoices ==
    { [type |-> "node", ref |-> 1, role |-> "stop"],
      [type |-> "node", ref |-> 2, role |-> ""],
      [type |-> "node", ref |-> 3, role |-> "platform"],
      [type |-> "node", ref |-> 2, role |-> "guide"],
      [type |-> "way", ref |-> 10, role |-> ""],
      [type |-> "way", ref |-> 12, role |-> "forward"],
      [type |-> "way", ref |-> 13, role |-> ""] }

\* The tags a relation carries
TagChoices ==
    { EmptyDict,
      [route |-> "bus"],
      [route |-> "Subway", ref |-> "3"],
      [route |-> "ferry"] }

\* The relation elements made of the members flat, cut into pieces of the
\* lengths lens, with the tags tgs
RelationElements(flat, lens, tgs) ==
    [i \in 1..Len(lens) |->
        [type |-> "relation", id |-> 100 + i, tags |-> tgs[i],
         members |-> SubSeq(flat, Sum(lens, i - 1) + 1, Sum(lens, i))]]

\* The document with these relations
Document(flat, lens, tgs) ==
    [elements |-> NodeElements \o WayElements \o RelationElements(flat, lens, tgs)]

\* The ways to cut n members into k relations
Cuts(n, k) == {x \in [1..k -> 0..n] : Sum(x, k) = n}

-----------------------------------------------------------------------------
(* get_tianhe_relation_id *)

\* The answers of the geocoder: a list of candidates, or a failed request
Candidates ==
    UNION { { [i \in 1..n |-> [osm_type |-> t[i], osm_id |-> 7000 + i]] :
                t \in [1..n -> {"relation", "node"}] } : n \in 0..MaxCandidates }

\* The first index from i on of a candidate of type relation, 0 when there is none
RECURSIVE first_relation(_, _)
first_relation(res, i) ==
    IF i > Len(res) THEN 0
    ELSE IF Get(res[i], "osm_type", None) = "relation" THEN i
    ELSE first_relation(res, i + 1)

\* the first candidate, whatever its type
get_tianhe_relation_id_first(res) == IF res # <<>> THEN res[1].osm_id ELSE 0

\* The value get_tianhe_relation_id returns for the candidates res, 0 when
\* it raises RuntimeError: the loop returns the first relation, and the test
\* of res[0] after the loop is reached only when the loop found none.
get_tianhe_relation_id(res) ==
    IF first_relation(res, 1) # 0
    THEN res[first_relation(res, 1)].osm_id
    ELSE IF res # <<>> /\ Get(res[1], "osm_type", None) = "relation"
    THEN res[1].osm_id
    ELSE 0

-----------------------------------------------------------------------------
(* assemble_features: the tables *)

\* nodes after the loop over the elements: a later element with the same id wins
partition_nodes(elements) ==
    LET idx == {i \in 1..Len(elements) : elements[i].type = "node"}
        last(n) == CHOOSE i \in idx : elements[i].id = n /\
                       \A j \in idx : elements[j].id = n => j <= i
    IN [n \in {elements[i].id : i \in idx} |->
           <<elements[last(n)].lon, elements[last(n)].lat,
             Get(elements[last(n)], "tags", EmptyDict)>>]

\* ways after the loop over the elements
partition_ways(elements) ==
    LET idx == {i \in 1..Len(elements) : elements[i].type = "way"}
        last(w) == CHOOSE i \in idx : elements[i].id = w /\
                       \A j \in idx : elements[j].id = w => j <= i
    IN [w \in {elements[i].id : i \in idx} |->
           [nodes |-> Get(elements[last(w)], "nodes", <<>>),
            tags |-> Get(elements[last(w)], "tags", EmptyDict)]]

\* relations after the loop: the relation elements in the order of the document
partition_relations(elements) ==
    SelectIdx(elements, 1, {i \in 1..Len(elements) : elements[i].type = "relation"})

-----------------------------------------------------------------------------
(* assemble_features: one relation *)

members(rel) == Get(rel, "members", <<>>)

route_type(rel) == lower(Get(Get(rel, "tags", EmptyDict), "route", ""))

\* any route type is taken
accepted_any(rt) == rt # ""

accepted(rt) == rt \in {"bus", "tram", "subway", "light_rail"}

mode(rt) == IF rt \in {"subway", "light_rail"} THEN "metro" ELSE "bus"

\* the test of a member in both loops: a node with a stop role
is_stop_member(m) ==
    Get(m, "type", None) = "node" /\
    Get(m, "role", None) \in {"stop", "stop_exit", "platform", ""}

\* nid in nodes
resolves(nid) == nid \in DOMAIN nodes

\* the (nid, lon, lat) of the stop members of rel that resolve, in member order
RECURSIVE member_nodes_sequence(_, _)
member_nodes_sequence(ms, i) ==
    IF i > Len(ms) THEN <<>>
    ELSE (IF is_stop_member(ms[i]) /\ resolves(ms[i].ref)
          THEN <<<<ms[i].ref, nodes[ms[i].ref][1], nodes[ms[i].ref][2]>>>>
          ELSE <<>>) \o member_nodes_sequence(ms, i + 1)

\* the [lon, lat] of the nodes of a way that resolve
RECURSIVE way_nodes_coords(_, _)
way_nodes_coords(ns, i) ==
    IF i > Len(ns) THEN <<>>
    ELSE (IF resolves(ns[i]) THEN <<<<nodes[ns[i]][1], nodes[ns[i]][2]>>>> ELSE <<>>)
         \o way_nodes_coords(ns, i + 1)

\* coords after the first loop over the members: the ways' coordinates
RECURSIVE way_coords(_, _)
way_coords(ms, i) ==
    IF i > Len(ms) THEN <<>>
    ELSE (IF Get(ms[i], "type", None) = "way" /\ ms[i].ref \in DOMAIN ways
          THEN way_nodes_coords(ways[ms[i].ref].nodes, 1)
          ELSE <<>>) \o way_coords(ms, i + 1)

\* the stops' coordinates added whatever the ways gave
coords_with_stops(rel) ==
    way_coords(members(rel), 1) \o
    [i \in 1..Len(member_nodes_sequence(members(rel), 1)) |->
        <<member_nodes_sequence(members(rel), 1)[i][2],
          member_nodes_sequence(members(rel), 1)[i][3]>>]

\* coords before the deduplication
coords(rel) ==
    IF way_coords(members(rel), 1) = <<>> /\ member_nodes_sequence(members(rel), 1) # <<>>
    THEN [i \in 1..Len(member_nodes_sequence(members(rel), 1)) |->
             <<member_nodes_sequence(members(rel), 1)[i][2],
               member_nodes_sequence(members(rel), 1)[i][3]>>]
    ELSE way_coords(members(rel), 1)

\* the loop over coords: c is kept when it differs from prev, the entry before it
RECURSIVE dedup_loop(_, _)
dedup_loop(cs, i) ==
    IF i > Len(cs) THEN <<>>
    ELSE (IF i = 1 \/ cs[i - 1] # cs[i] THEN <<cs[i]>> ELSE <<>>) \o dedup_loop(cs, i + 1)

\* a pair is kept when no earlier pair equals it
dedup_coords_global(cs) ==
    SelectIdx(cs, 1, {i \in 1..Len(cs) : \A j \in 1..(i - 1) : cs[j] # cs[i]})

dedup_coords(cs) == dedup_loop(cs, 1)

route_props(rel) ==
    LET tags == Get(rel, "tags", EmptyDict) IN
    [mode |-> mode(route_type(rel)),
     network |-> Or(Get(tags, "network", None), Get(tags, "operator", None)),
     route_id |-> Or(Get(tags, "ref", None), str(rel.id)),
     name |-> Or(Get(tags, "name", None),
                 Or(Get(tags, "ref", None), "route/" \o str(rel.id))),
     operator |-> Get(tags, "operator", None),
     osm_relation_id |-> rel.id,
     route |-> Get(tags, "route", None),
     colour |-> Or(Get(tags, "colour", None), Get(tags, "line", None))]

\* a LineString whatever the coordinates
emits_route_always(dedup) == TRUE

\* if dedup_coords: the relation emits a LineString
emits_route(dedup) == dedup # <<>>

route_feature(rel) ==
    [type |-> "Feature",
     geometry |-> [type |-> "LineString", coordinates |-> dedup_coords(coords(rel))],
     properties |-> route_props(rel)]

\* the Point feature of a node seen for the first time
new_stop_feature(nid, md, route_id, sq) ==
    [type |-> "Feature",
     geometry |-> [type |-> "Point", coordinates |-> <<nodes[nid][1], nodes[nid][2]>>],
     properties |->
        [mode |-> md,
         stop_id |-> Or(Get(nodes[nid][3], "ref", None), str(nid)),
         stop_name |-> Get(nodes[nid][3], "name", None),
         osm_node_id |-> nid,
         sequence |-> sq,
         routes |-> <<route_id>>,
         tags |-> nodes[nid][3]]]

\* the route put at the head of the list
append_route_at_head(sfs, idx, route_id) ==
    [sfs EXCEPT ![idx].properties.routes = <<route_id>> \o @]

\* seen_stop_nodes[nid]["routes"].append(route_id)
append_route(sfs, idx, route_id) ==
    [sfs EXCEPT ![idx].properties.routes = Append(@, route_id)]

\* the registration forgotten
register_seen_forgotten(seen, nid, idx) == seen

\* seen_stop_nodes[nid] = sf["properties"]
register_seen(seen, nid, idx) == seen @@ (nid :> idx)

\* the counter advanced for new stops only
next_seq_new_only(sq, was_seen) == IF was_seen THEN sq ELSE sq + 1

\* seq += 1, for a node seen before (was_seen) or not
next_seq(sq, was_seen) == sq + 1

\* the points before the lines
all_features_swapped(fs, sfs) == sfs \o fs

\* features + stop_features
all_features(fs, sfs) == fs \o sfs

-----------------------------------------------------------------------------
(* The actions *)

rel == relations[ri]
m == members(rel)[mi]

asm_vars == <<nodes, ways, relations, ri, mi, seq, features, stop_features,
              seen_stop_nodes>>

\* main, lines 178-180: get_tianhe_relation_id answers or raises (the request
\* fails, or no candidate is a relation), and a raise ends the run
Resolve ==
    /\ pc = "resolve"
    /\ \/ /\ pc' = "failed"
          /\ error' = "HTTPError"
          /\ stdout' = Append(stdout, 1)
          /\ UNCHANGED <<results, rid>>
       \/ \E answer \in Candidates :
             /\ results' = answer
             /\ IF get_tianhe_relation_id(answer) = 0
                THEN /\ pc' = "failed"
                     /\ error' = "RuntimeError"
                     /\ stdout' = Append(stdout, 1)
                     /\ UNCHANGED rid
                ELSE /\ pc' = "fetch"
                     /\ rid' = get_tianhe_relation_id(answer)
                     /\ stdout' = Append(stdout, 1)
                     /\ UNCHANGED error
    /\ UNCHANGED <<osm, fc, files>>
    /\ UNCHANGED asm_vars

\* main, lines 181-185: fetch_overpass answers with a document or raises
Fetch ==
    /\ pc = "fetch"
    /\ \/ /\ pc' = "failed"
          /\ error' = "HTTPError"
          /\ stdout' = Append(stdout, 2)
          /\ UNCHANGED osm
       \/ \E n \in 0..MaxFetchMembers, k \in 0..MaxRels :
          \E flat \in [1..n -> MemberChoices], lens \in Cuts(n, k),
             tgs \in [1..k -> TagChoices] :
             /\ osm' = Document(flat, lens, tgs)
             /\ pc' = "assemble"
             /\ stdout' = Append(Append(stdout, 2), 3)
             /\ UNCHANGED error
    /\ UNCHANGED <<results, rid, fc, files>>
    /\ UNCHANGED asm_vars

\* assemble_features, lines 66-82: the tables and the empty lists
AssembleStart ==
    /\ pc = "assemble"
    /\ pc' = "rel"
    /\ nodes' = partition_nodes(Get(osm, "elements", <<>>))
    /\ ways' = partition_ways(Get(osm, "elements", <<>>))
    /\ relations' = partition_relations(Get(osm, "elements", <<>>))
    /\ ri' = 1
    /\ features' = <<>>
    /\ stop_features' = <<>>
    /\ seen_stop_nodes' = EmptyDict
    /\ UNCHANGED <<error, results, rid, stdout, osm, mi, seq, fc, files>>

\* lines 84-88: a relation of another route type is skipped
SkipRelation ==
    /\ pc = "rel"
    /\ ri <= Len(relations)
    /\ ~accepted(route_type(rel))
    /\ ri' = ri + 1
    /\ UNCHANGED <<pc, error, results, rid, stdout, osm, nodes, ways, relations, mi, seq, features, stop_features,
                   seen_stop_nodes, fc, files>>

\* lines 89-139: the geometry of an accepted relation, its LineString when
\* there is one, and the start of the loop over its stops
BuildRoute ==
    /\ pc = "rel"
    /\ ri <= Len(relations)
    /\ accepted(route_type(rel))
    /\ features' = IF emits_route(dedup_coords(coords(rel)))
                   THEN Append(features, route_feature(rel))
                   ELSE features
    /\ seq' = 1
    /\ mi' = 1
    /\ pc' = "stops"
    /\ UNCHANGED <<error, results, rid, stdout, osm, nodes, ways, relations, ri, stop_features,
                   seen_stop_nodes, fc, files>>

\* lines 140-163: one member in the loop over the stops
StopMember ==
    /\ pc = "stops"
    /\ mi <= Len(members(rel))
    /\ IF is_stop_member(m) /\ resolves(m.ref)
       THEN /\ IF m.ref \in DOMAIN seen_stop_nodes
               THEN /\ stop_features' =
                          append_route(stop_features, seen_stop_nodes[m.ref],
                                       route_props(rel).route_id)
                    /\ UNCHANGED seen_stop_nodes
               ELSE /\ stop_features' =
                          Append(stop_features,
                                 new_stop_feature(m.ref, mode(route_type(rel)),
                                                  route_props(rel).route_id, seq))
                    /\ seen_stop_nodes' =
                          register_seen(seen_stop_nodes, m.ref, Len(stop_features) + 1)
            /\ seq' = next_seq(seq, m.ref \in DOMAIN seen_stop_nodes)
       ELSE UNCHANGED <<stop_features, seen_stop_nodes, seq>>
    /\ mi' = mi + 1
    /\ UNCHANGED <<pc, error, results, rid, stdout, osm, nodes, ways, relations, ri, features, fc, files>>

\* line 140, 84: the loop over the stops ends, on to the next relation
NextRelation ==
    /\ pc = "stops"
    /\ mi > Len(members(rel))
    /\ ri' = ri + 1
    /\ pc' = "rel"
    /\ UNCHANGED <<error, results, rid, stdout, osm, nodes, ways, relations, mi, seq, features, stop_features,
                   seen_stop_nodes, fc, files>>

\* lines 165-166 and 186-188: the collection is returned to main
AssembleReturn ==
    /\ pc = "rel"
    /\ ri > Len(relations)
    /\ fc' = [type |-> "FeatureCollection",
              features |-> all_features(features, stop_features)]
    /\ pc' = "write"
    /\ stdout' = Append(stdout, 4)
    /\ UNCHANGED <<error, results, rid, osm, files>>
    /\ UNCHANGED asm_vars

\* save_geojson, lines 168-170 and 189-190
Save ==
    /\ pc = "write"
    /\ files' = (OUT_GEOJSON :> fc) @@ files
    /\ pc' = "zip"
    /\ stdout' = Append(stdout, 5)
    /\ UNCHANGED <<error, results, rid, osm, fc>>
    /\ UNCHANGED asm_vars

\* make_zip, lines 172-175 and 191-194: the archive holds the document under
\* its base name
Zip ==
    /\ pc = "zip"
    /\ files' = (OUT_ZIP :> <<[name |-> OUT_GEOJSON, data |-> files[OUT_GEOJSON]]>>) @@ files
    /\ pc' = "done"
    /\ UNCHANGED <<error, results, rid, stdout, osm, fc>>
    /\ UNCHANGED asm_vars

Assemble ==
    \/ AssembleStart
    \/ SkipRelation
    \/ BuildRoute
    \/ StopMember
    \/ NextRelation
    \/ AssembleReturn

-----------------------------------------------------------------------------
(* The run of main *)

Init ==
    /\ pc = "resolve"
    /\ error = None
    /\ results = <<>>
    /\ rid = 0
    /\ stdout = <<>>
    /\ osm = EmptyDict
    /\ nodes = EmptyDict
    /\ ways = EmptyDict
    /\ relations = <<>>
    /\ ri = 0
    /\ mi = 0
    /\ seq = 0
    /\ features = <<>>
    /\ stop_features = <<>>
    /\ seen_stop_nodes = EmptyDict
    /\ fc = EmptyDict
    /\ files = EmptyDict

Next ==
    \/ Resolve
    \/ Fetch
    \/ Assemble
    \/ Save
    \/ Zip

Spec == Init /\ [][Next]_vars

(* assemble_features alone, on every document of the bounds *)

InitAssemble ==
    /\ pc = "assemble"
    /\ error = None
    /\ results = <<[osm_type |-> "relation", osm_id |-> 7001]>>
    /\ rid = 7001
    /\ stdout = <<1, 2, 3>>
    /\ \E n \in 0..MaxMembers, k \in 0..MaxRels :
       \E flat \in [1..n -> MemberChoices], lens \in Cuts(n, k),
          tgs \in [1..k -> TagChoices] :
          osm = Document(flat, lens, tgs)
    /\ nodes = EmptyDict
    /\ ways = EmptyDict
    /\ relations = <<>>
    /\ ri = 0
    /\ mi = 0
    /\ seq = 0
    /\ features = <<>>
    /\ stop_features = <<>>
    /\ seen_stop_nodes = EmptyDict
    /\ fc = EmptyDict
    /\ files = EmptyDict

SpecAssemble == InitAssemble /\ [][Assemble]_vars

-----------------------------------------------------------------------------
(* The input and the output, as the properties speak of them *)

\* assemble_features has returned
Returned == pc \in {"write", "zip", "done"}

\* the relations assemble_features was given, in the order of the document
InputRelations == relations

\* the fetched document has a node, a way, with this id
NodeFetched(n) ==
    \E i \in 1..Len(Get(osm, "elements", <<>>)) :
        osm.elements[i].type = "node" /\ osm.elements[i].id = n

WayFetched(w) ==
    \E i \in 1..Len(Get(osm, "elements", <<>>)) :
        osm.elements[i].type = "way" /\ osm.elements[i].id = w

\* the node ids of the fetched way w
WayNodes(w) ==
    LET i == CHOOSE j \in 1..Len(osm.elements) :
                 osm.elements[j].type = "way" /\ osm.elements[j].id = w
    IN osm.elements[i].nodes

\* the member mm is a node with a stop-like role
StopRole(mm) ==
    mm.type = "node" /\ mm.role \in {"stop", "platform", "stop_exit", ""}

\* the relation r has one of the four route types, in any letter case
Wanted(r) ==
    /\ "route" \in DOMAIN r.tags
    /\ lower(r.tags.route) \in {"bus", "tram", "subway", "light_rail"}

\* the second loop has dealt with member j of relation r
Dealt(r, j) ==
    \/ Returned
    \/ pc \in {"rel", "stops"} /\ r < ri
    \/ pc = "stops" /\ r = ri /\ j < mi

\* the positions of the members of the relation r that name the node nid with a stop role
StopPositions(r, nid) ==
    {j \in 1..Len(InputRelations[r].members) :
        StopRole(InputRelations[r].members[j]) /\ InputRelations[r].members[j].ref = nid}

\* the wanted relations that name the node nid with a stop role
Referencing(nid) ==
    {r \in 1..Len(InputRelations) : Wanted(InputRelations[r]) /\ StopPositions(r, nid) # {}}

Min(S) == CHOOSE x \in S : \A y \in S : x <= y

\* the Point features of the returned collection
Points == {i \in 1..Len(fc.features) : fc.features[i].geometry.type = "Point"}
Lines == {i \in 1..Len(fc.features) : fc.features[i].geometry.type = "LineString"}

\* the sequence cs with every run of equal neighbours collapsed to one entry,
\* each entry compared with the last one kept
RECURSIVE CollapseRuns(_, _)
CollapseRuns(kept, cs) ==
    IF cs = <<>> THEN kept
    ELSE IF kept # <<>> /\ kept[Len(kept)] = Head(cs)
         THEN CollapseRuns(kept, Tail(cs))
         ELSE CollapseRuns(Append(kept, Head(cs)), Tail(cs))

\* the relation a LineString feature was made from
RelationOf(f) ==
    InputRelations[CHOOSE r \in 1..Len(InputRelations) :
                       InputRelations[r].id = f.properties.osm_relation_id]

-----------------------------------------------------------------------------
(* C1 *)

\* C1: no two Point features carry the same osm_node_id, neither in
\* stop_features while the relations are processed nor in the returned
\* collection, however often and by however many relations a node is named.
C1_OnePointPerNode ==
    /\ \A i, j \in 1..Len(stop_features) :
          i # j => stop_features[i].properties.osm_node_id #
                   stop_features[j].properties.osm_node_id
    /\ Returned =>
          \A i, j \in Points :
             i # j => fc.features[i].properties.osm_node_id #
                      fc.features[j].properties.osm_node_id

\* a returned collection with a stop that was named more than once
C1_Witness ==
    /\ pc = "write"
    /\ \E i \in Points : Len(fc.features[i].properties.routes) >= 2

(* C2 *)

\* C2: in the returned collection the routes list of every StopFeature is as
\* long as the number of distinct wanted relations that name its node with a
\* stop role.
C2_RoutesCountRelations ==
    Returned =>
        \A i \in Points :
            Len(fc.features[i].properties.routes) =
                Cardinality(Referencing(fc.features[i].properties.osm_node_id))

(* C3 *)

\* C3: the coordinates of every LineString are the collected coordinates of
\* its relation with every run of equal neighbours collapsed (each pair
\* compared with the last kept one): no two neighbours are equal, and there is
\* one entry per run, so that repeats that are not neighbours stay.
C3_Dedup ==
    \A k \in 1..Len(features) :
        LET g == features[k].geometry.coordinates
            cs == coords(RelationOf(features[k]))
        IN /\ g = CollapseRuns(<<>>, cs)
           /\ \A i \in 1..(Len(g) - 1) : g[i] # g[i + 1]
           /\ Len(g) = 1 + Cardinality({i \in 1..(Len(cs) - 1) : cs[i] # cs[i + 1]})

\* a LineString whose relation collected equal neighbours and that keeps a
\* repeat that is not a neighbour
C3_Witness ==
    \E k \in 1..Len(features) :
        LET g == features[k].geometry.coordinates
            cs == coords(RelationOf(features[k]))
        IN /\ \E i \in 1..(Len(cs) - 1) : cs[i] = cs[i + 1]
           /\ \E i, j \in 1..Len(g) : j > i + 1 /\ g[i] = g[j]

(* C4 *)

\* C4: in the returned feature list every LineString comes before every Point.
C4_LinesBeforePoints ==
    Returned => \A i \in Points, j \in Lines : j < i

\* a returned collection where the first relation made a stop and the second
\* one a line
C4_Witness ==
    /\ pc = "write"
    /\ \E i \in Points, j \in Lines :
          /\ fc.features[i].properties.routes[1] = "101"
          /\ fc.features[j].properties.osm_relation_id = 102

(* C5 *)

\* C5: while the relation at hand is one whose route tag is absent or is not
\* one of the four route types, no step changes features or stop_features: it
\* adds no LineString and no Point and appends to no routes list.
C5_UnwantedContributesNothing ==
    [][(pc \in {"rel", "stops"} /\ ri \in 1..Len(InputRelations) /\
        ~Wanted(InputRelations[ri]))
       => UNCHANGED <<features, stop_features, seen_stop_nodes>>]_vars

\* an unwanted second relation was passed over although it names, with a stop
\* role, the node of a stop the first relation made, and a way that resolves
C5_Witness ==
    /\ pc = "rel"
    /\ ri = 3
    /\ ~Wanted(InputRelations[2])
    /\ Len(stop_features) = 1
    /\ StopPositions(2, stop_features[1].properties.osm_node_id) # {}
    /\ stop_features[1].properties.routes = <<"101">>

(* C6 *)

\* no member of the relation r resolves: its nodes were not fetched, its ways
\* were not fetched or name no fetched node
Unresolvable(r) ==
    /\ r.members # <<>>
    /\ \A j \in 1..Len(r.members) :
          /\ r.members[j].type = "node" => ~NodeFetched(r.members[j].ref)
          /\ r.members[j].type = "way" =>
                (WayFetched(r.members[j].ref) =>
                    \A n \in 1..Len(WayNodes(r.members[j].ref)) :
                        ~NodeFetched(WayNodes(r.members[j].ref)[n]))

\* the relation r has, in the returned collection, the LineString its ways give
HasItsLine(r) ==
    \E i \in Lines : fc.features[i].properties.osm_relation_id = r.id

\* C6: while the relation at hand has members of which none resolves, no step
\* changes features or stop_features; no step of the assembly fails; and the
\* returned collection holds the LineString of every wanted relation one of
\* whose ways resolves and a Point for every fetched node a wanted relation
\* names with a stop role.
C6_UnresolvableContributesNothing ==
    /\ [][(pc \in {"rel", "stops"} /\ ri \in 1..Len(InputRelations) /\
           Unresolvable(InputRelations[ri]))
          => (UNCHANGED <<features, stop_features, seen_stop_nodes>> /\ pc' # "failed")]_vars
    /\ [](Returned =>
            \A r \in 1..Len(InputRelations) :
                Wanted(InputRelations[r]) =>
                  /\ (\E j \in 1..Len(InputRelations[r].members) :
                         /\ InputRelations[r].members[j].type = "way"
                         /\ WayFetched(InputRelations[r].members[j].ref)
                         /\ \E n \in 1..Len(WayNodes(InputRelations[r].members[j].ref)) :
                               NodeFetched(WayNodes(InputRelations[r].members[j].ref)[n]))
                     => HasItsLine(InputRelations[r])
                  /\ \A j \in 1..Len(InputRelations[r].members) :
                        (StopRole(InputRelations[r].members[j]) /\
                         NodeFetched(InputRelations[r].members[j].ref))
                        => \E i \in Points : fc.features[i].properties.osm_node_id =
                                                InputRelations[r].members[j].ref)

\* a collection was returned with the line and the stop of the second
\* relation after a wanted first relation of which no member resolves
C6_Witness ==
    /\ pc = "write"
    /\ Len(InputRelations) = 2
    /\ Wanted(InputRelations[1])
    /\ Unresolvable(InputRelations[1])
    /\ Lines # {}
    /\ Points # {}

(* C7 *)

IsPrefix(s, t) == Len(s) <= Len(t) /\ SubSeq(t, 1, Len(s)) = s

\* C7: the progress lines come in the order of the stages; once resolve is
\* over with no candidate of type relation the run has failed; a failed run
\* has written nothing; the document is written only after the assembly
\* returned and the archive only after the document.
C7_StagesInOrder ==
    /\ IsPrefix(stdout, <<1, 2, 3, 4, 5>>)
    /\ (pc # "resolve" /\ \A i \in 1..Len(results) : results[i].osm_type # "relation")
          => pc = "failed"
    /\ pc = "failed" => (error # None /\ DOMAIN files = {} /\ Len(stdout) <= 2)
    /\ pc \in {"resolve", "fetch", "assemble", "rel", "stops", "write"} => DOMAIN files = {}
    /\ OUT_GEOJSON \in DOMAIN files => (pc \in {"zip", "done"} /\ files[OUT_GEOJSON] = fc)
    /\ OUT_ZIP \in DOMAIN files => (pc = "done" /\ OUT_GEOJSON \in DOMAIN files)

\* the geocoder answered candidates none of which is a relation, and the run
\* ended with nothing written
C7_Witness ==
    /\ pc = "failed"
    /\ error = "RuntimeError"
    /\ Len(results) >= 1
    /\ DOMAIN files = {}

(* C8 *)

\* the first wanted relation that names the fetched node nid with a stop role
Creator(nid) == Min(Referencing(nid))

\* C8 as stated: during the loop over the stops of a relation the counter is 1
\* plus the number of stop-role node members the loop has dealt with.
C8_CounterCountsStopMembers ==
    pc = "stops" =>
        seq = 1 + Cardinality({j \in 1..(mi - 1) : StopRole(InputRelations[ri].members[j])})

\* C8 amended: the counter is 1 plus the number of stop-role node members dealt
\* with whose node was fetched, new or seen before alike; and the sequence of
\* a StopFeature is 1 plus the number of such members before the first one
\* that names its node, in the relation that made it.
C8_CounterCountsResolvedStops ==
    /\ pc = "stops" =>
          seq = 1 + Cardinality({j \in 1..(mi - 1) :
                                    /\ StopRole(InputRelations[ri].members[j])
                                    /\ NodeFetched(InputRelations[ri].members[j].ref)})
    /\ \A k \in 1..Len(stop_features) :
          LET nid == stop_features[k].properties.osm_node_id
              r == Creator(nid)
              first == Min(StopPositions(r, nid))
          IN stop_features[k].properties.sequence =
                1 + Cardinality({j \in 1..(first - 1) :
                                    /\ StopRole(InputRelations[r].members[j])
                                    /\ NodeFetched(InputRelations[r].members[j].ref)})

\* the counter has advanced to 3 over a new stop and over the same node seen
\* again, and the StopFeature made has the sequence 1
C8_Witness ==
    /\ pc = "stops"
    /\ seq = 3
    /\ Len(stop_features) = 1
    /\ stop_features[1].properties.sequence = 1
    /\ Len(stop_features[1].properties.routes) = 2

(* C9 *)

\* the [lon, lat] of the fetched node n
NodeCoord(n) ==
    LET i == CHOOSE j \in 1..Len(osm.elements) :
                 osm.elements[j].type = "node" /\ osm.elements[j].id = n
    IN <<osm.elements[i].lon, osm.elements[i].lat>>

\* the coordinates of the fetched nodes among ns, in order
RECURSIVE FetchedCoords(_)
FetchedCoords(ns) ==
    IF ns = <<>> THEN <<>>
    ELSE (IF NodeFetched(Head(ns)) THEN <<NodeCoord(Head(ns))>> ELSE <<>>)
         \o FetchedCoords(Tail(ns))

\* the coordinates the way members of ms give, in member order
RECURSIVE FromWays(_)
FromWays(ms) ==
    IF ms = <<>> THEN <<>>
    ELSE (IF Head(ms).type = "way" /\ WayFetched(Head(ms).ref)
          THEN FetchedCoords(WayNodes(Head(ms).ref)) ELSE <<>>)
         \o FromWays(Tail(ms))

\* the node ids of the stop-role node members of ms, in member order
RECURSIVE StopNodes(_)
StopNodes(ms) ==
    IF ms = <<>> THEN <<>>
    ELSE (IF StopRole(Head(ms)) THEN <<Head(ms).ref>> ELSE <<>>) \o StopNodes(Tail(ms))

\* C9: the geometry of a LineString is made of the coordinates its relation's
\* ways give whenever they give one, and of the coordinates of its fetched
\* stop-role node members, in member order, only when the ways give none.
C9_NodesOnlyWithoutWays ==
    \A k \in 1..Len(features) :
        LET ms == RelationOf(features[k]).members
            g == features[k].geometry.coordinates
        IN IF FromWays(ms) # <<>>
           THEN g = CollapseRuns(<<>>, FromWays(ms))
           ELSE g = CollapseRuns(<<>>, FetchedCoords(StopNodes(ms)))

\* a LineString of a relation with a way that resolves and a stop whose
\* place the geometry would otherwise end at
C9_Witness ==
    \E k \in 1..Len(features) :
        LET ms == RelationOf(features[k]).members IN
        /\ FromWays(ms) # <<>>
        /\ FetchedCoords(StopNodes(ms)) # <<>>
        /\ features[k].geometry.coordinates #
              CollapseRuns(<<>>, FromWays(ms) \o FetchedCoords(StopNodes(ms)))

(* C10 *)

\* the route identifier of the relation r
RouteId(r) == IF "ref" \in DOMAIN r.tags THEN r.tags.ref ELSE ToString(r.id)

\* the route identifiers of the references to nid the second loop has dealt
\* with, from relation r and member j on, in the order of processing
RECURSIVE RoutesFrom(_, _, _)
RoutesFrom(nid, r, j) ==
    IF r > Len(InputRelations) THEN <<>>
    ELSE IF j > Len(InputRelations[r].members) THEN RoutesFrom(nid, r + 1, 1)
    ELSE (IF /\ Wanted(InputRelations[r])
             /\ j \in StopPositions(r, nid)
             /\ Dealt(r, j)
          THEN <<RouteId(InputRelations[r])>> ELSE <<>>)
         \o RoutesFrom(nid, r, j + 1)

\* C10: a step leaves every StopFeature there is in its place and as it was
\* but for its routes list, which it leaves alone or extends by one entry at
\* its end; the mode of a StopFeature is that of the first wanted relation
\* naming its node; and its routes list holds the route identifiers of the
\* references dealt with, in the order of processing.
C10_OnlyRoutesGrow ==
    /\ [][\A k \in 1..Len(stop_features) :
             /\ k <= Len(stop_features')
             /\ stop_features'[k] =
                   [stop_features[k] EXCEPT
                       !.properties.routes = stop_features'[k].properties.routes]
             /\ IsPrefix(stop_features[k].properties.routes,
                         stop_features'[k].properties.routes)
             /\ Len(stop_features'[k].properties.routes) <=
                   Len(stop_features[k].properties.routes) + 1]_vars
    /\ [](\A k \in 1..Len(stop_features) :
             LET nid == stop_features[k].properties.osm_node_id IN
             /\ stop_features[k].properties.mode =
                   (IF lower(InputRelations[Creator(nid)].tags.route) \in {"subway", "light_rail"}
                    THEN "metro" ELSE "bus")
             /\ stop_features[k].properties.routes = RoutesFrom(nid, 1, 1))

\* a stop a bus relation made, named again by a metro relation
C10_Witness ==
    /\ Len(stop_features) = 1
    /\ stop_features[1].properties.mode = "bus"
    /\ stop_features[1].properties.routes = <<"101", "3">>

====
